---- MODULE Spec2Model ----
(***************************************************************************)
(* Token lifecycle and session security of the authentication backend:     *)
(* AuthService (src/src/auth/auth.service.ts), its controller and the      *)
(* cleanup scheduler, run against the shared store (the user and           *)
(* refreshToken tables).                                                   *)
(*                                                                         *)
(* Time is counted in seconds (the unit of the JWT iat/exp fields and of   *)
(* the service's *_EXPIRES_* constants).  Every await on the store is a    *)
(* point where other requests' store operations and the clock may          *)
(* interleave, so a handler is one action per store operation it awaits.   *)
(*                                                                         *)
(* jwtService.sign is taken to sign the payload as given (exp set by the   *)
(* caller) and jwtService.verify to check signature and exp.               *)
(* lastLoginAt / lastActiveAt of the user table are written but never read *)
(* by the service and are left out of the state.                           *)
(***************************************************************************)
EXTENDS Integers, Sequences, FiniteSets, TLC

----
\* Bounds of the model
MaxSessions == 2
MaxRaceSessions == 3
MaxTicks == 1
MaxLockTicks == 2
MaxLogins == 1
MaxCompares == 11
MaxAttempts == 2

\* Inputs
Users == {"u1", "u2"}
Procs == {"p1", "p2"}
\* the accounts that log in, and the handler and account of the revoke-all request
LoginUsers == {"u1"}
RevokeAllProcs == {"p1"}
\* the handler of the requests that are one store operation each
EndpointProcs == {"p1"}
\* the session ids a client may name: 0 is the id of no row ever created
SessionIds == 0..MaxRaceSessions
\* the handler of the login requests that arrive one after the other
LockProcs == {"p1"}
\* one clock step: past the 24 h session lifetime and the 7-day retention
TickSteps == {604801}
\* the emails and passwords presented at login, and the clock steps between them
Emails == LoginUsers \cup {"nobody"}
Passwords == {"right", "wrong"}
LockTickSteps == {1, 86400}
\* the clock steps between cleanup runs: the 24 h session lifetime and the 7-day
\* retention window, each to the second
CleanupTickSteps == {86400, 604800}

\* Program constants (seconds)
ACCESS_TOKEN_EXPIRES_IN == 1800
REFRESH_TOKEN_EXPIRES_SHORT == 86400
REFRESH_TOKEN_EXPIRES_LONG == 2592000
REMEMBER_ME_CUTOFF == 172800
REVOKED_RETENTION == 604800
LOCK_THRESHOLD == 10
LOCK_DURATION == 86400

Null == 0 - 1

VARIABLES
  now,          \* the clock (Date.now(), in seconds)
  ticks,        \* number of clock steps taken (bounded)
  limit,        \* number of session rows the run may create (fixed by Init)
  tickLimit,    \* number of clock steps the run may take (fixed by Init)
  isAdmin,      \* prisma.user: id -> the administrative flag
  cleanupLog,   \* what TokenCleanupService's handlers last logged
  user,         \* prisma.user: id -> mutable lockout fields
  refreshToken, \* prisma.refreshToken: id -> row, for the rows that exist
  issued,       \* every wrapper ever signed, by row id (history)
  pc,           \* each request handler's position
  arg,          \* each request handler's inputs
  snap,         \* each request handler's tokenRecord read from the store
  usnap,        \* each request handler's user read from the store
  compared,     \* per account, the times of the password comparisons since its last
                \* successful login or unlock (history)
  raced,        \* per account, whether one of those comparisons was followed by a write
                \* from a user row read that was no longer the stored one (history)
  todo,         \* each request handler's list of sessions still to revoke
  res           \* what each request handler last returned

vars == <<now, ticks, limit, tickLimit, isAdmin, cleanupLog, user, usnap, compared, raced, refreshToken, issued, pc, arg,
          snap, todo, res>>

----
\* Values

NoRow == [userId |-> "", createdAt |-> Null, expiresAt |-> Null, lastUsedAt |-> Null,
          isRevoked |-> FALSE, revokedAt |-> Null, revokedReason |-> "", exists |-> FALSE]

NoArg == [op |-> "", tokenId |-> 0, userId |-> "", revokedAtStart |-> FALSE,
          email |-> "", password |-> "", rememberMe |-> FALSE]

\* the user row of a new account, also standing for "no user read"
NoUser == [failedLoginAttempts |-> 0, lockedUntil |-> Null]

\* prisma.refreshToken.create: defaults of the schema plus the data given
NewRow(u, t, dur) ==
  [userId |-> u, createdAt |-> t, expiresAt |-> t + dur, lastUsedAt |-> t,
   isRevoked |-> FALSE, revokedAt |-> Null, revokedReason |-> "", exists |-> TRUE]

\* the refresh wrapper's payload, with the id of the call's presented row (0: a login)
RefreshTokenPayload(u, id, t, dur, parent) ==
  [sub |-> u, tokenId |-> id, iat |-> t, exp |-> t + dur, type |-> "refresh",
   parent |-> parent]

NextId == Len(issued) + 1

\* jwtService.verify: the signature is the issuer's (the wrapper is one of `issued')
\* and the token has not reached its exp
JwtVerify(w, t) == t < w.exp

Revoked(row, t, reason) ==
  [row EXCEPT !.isRevoked = TRUE, !.revokedAt = t, !.revokedReason = reason]

\* generateTokenPair: the row created and the wrapper signed for it
GenerateTokenPair(u, rememberMe, parent) ==
  LET dur == IF rememberMe THEN REFRESH_TOKEN_EXPIRES_LONG ELSE REFRESH_TOKEN_EXPIRES_SHORT
      id == NextId
  IN /\ refreshToken' = (id :> NewRow(u, now, dur)) @@ refreshToken
     /\ issued' = Append(issued, RefreshTokenPayload(u, id, now, dur, parent))

\* the handler returns r; of its inputs the history flag and the credentials
\* presented are kept, as the record of the call just served
Finish(p, r) ==
  /\ pc' = [pc EXCEPT ![p] = "idle"]
  /\ arg' = [arg EXCEPT ![p] = [NoArg EXCEPT !.revokedAtStart = arg[p].revokedAtStart,
                                             !.email = arg[p].email,
                                             !.password = arg[p].password]]
  /\ snap' = [snap EXCEPT ![p] = NoRow]
  /\ usnap' = [usnap EXCEPT ![p] = NoUser]
  /\ todo' = [todo EXCEPT ![p] = <<>>]
  /\ res' = [res EXCEPT ![p] = r]

\* prisma.refreshToken.findUnique({ where: { id } })
FindUnique(id) == IF id \in DOMAIN refreshToken THEN refreshToken[id] ELSE NoRow

\* bcrypt.hash and bcrypt.compare
BcryptHash(pw) == <<"bcrypt", pw>>

BcryptCompare(pw, hash) == BcryptHash(pw) = hash

\* the password hash stored at registration
StoredHash(u) == BcryptHash("right")

\* the rows the refresh and login calls in flight will still create
InFlight ==
  Cardinality({p \in Procs :
    \/ pc[p] \in {"rfFind", "rfTouch", "rfRevoke", "rfCreate", "lgCreate"}
    \/ pc[p] \in {"vFind", "vCompare"} /\ BcryptCompare(arg[p].password, StoredHash(arg[p].email))})

CanCreate == Len(issued) + InFlight < limit

----
InitWith(n, k) ==
  /\ now = 0
  /\ ticks = 0
  /\ limit = n
  /\ tickLimit = k
  /\ isAdmin = [u \in Users |-> FALSE]
  /\ cleanupLog = "none"
  /\ user = [u \in Users |-> NoUser]
  /\ refreshToken = <<>>
  /\ issued = <<>>
  /\ pc = [p \in Procs |-> "idle"]
  /\ arg = [p \in Procs |-> NoArg]
  /\ snap = [p \in Procs |-> NoRow]
  /\ usnap = [p \in Procs |-> NoUser]
  /\ compared = [u \in Users |-> <<>>]
  /\ raced = [u \in Users |-> FALSE]
  /\ todo = [p \in Procs |-> <<>>]
  /\ res = [p \in Procs |-> "none"]

Init == InitWith(MaxSessions, MaxTicks)

InitRace == InitWith(MaxRaceSessions, MaxTicks)

\* the clock advances by d
Tick(d) ==
  /\ ticks < tickLimit
  /\ now' = now + d
  /\ ticks' = ticks + 1
  /\ UNCHANGED <<limit, tickLimit, isAdmin, cleanupLog, user, usnap, compared, raced, refreshToken, issued, pc, arg, snap, todo, res>>

\* AuthService.login for a validated user
Login(u, rememberMe) ==
  /\ CanCreate
  /\ GenerateTokenPair(u, rememberMe, 0)
  /\ UNCHANGED <<now, ticks, limit, tickLimit, isAdmin, cleanupLog, user, usnap, compared, raced, pc, arg, snap, todo, res>>

----
\* AuthService.refreshTokens, one action per awaited store operation

\* jwtService.verify and the type check, then findUnique is issued
RefreshStart(p, id) ==
  /\ pc[p] = "idle"
  /\ id \in 1..Len(issued)
  /\ CanCreate
  /\ LET revoked == FindUnique(id).exists /\ FindUnique(id).isRevoked
     IN IF JwtVerify(issued[id], now) /\ issued[id].type = "refresh"
          THEN /\ pc' = [pc EXCEPT ![p] = "rfFind"]
               /\ arg' = [arg EXCEPT ![p] = [NoArg EXCEPT !.op = "refresh", !.tokenId = id,
                                                          !.userId = issued[id].sub,
                                                          !.revokedAtStart = revoked]]
               /\ res' = [res EXCEPT ![p] = "none"]
               /\ UNCHANGED <<snap, todo>>
          ELSE /\ pc' = pc
               /\ arg' = [arg EXCEPT ![p] = [NoArg EXCEPT !.revokedAtStart = revoked]]
               /\ res' = [res EXCEPT ![p] = "unauthorized"]
               /\ UNCHANGED <<snap, todo>>
  /\ UNCHANGED <<now, ticks, limit, tickLimit, isAdmin, cleanupLog, user, usnap, compared, raced, refreshToken, issued>>

\* FindOutcome without the expiresAt check
FindOutcome_NoExpiryCheck(row, t) ==
  IF ~row.exists THEN "notfound"
  ELSE IF row.isRevoked THEN "revoked"
  ELSE "ok"

\* FindOutcome with the expiry comparison turned round
FindOutcome_ExpiryReversed(row, t) ==
  IF ~row.exists THEN "notfound"
  ELSE IF row.isRevoked THEN "revoked"
  ELSE IF row.expiresAt > t THEN "expired"
  ELSE "ok"

\* FindOutcome without the isRevoked check
FindOutcome_NoRevokedCheck(row, t) ==
  IF ~row.exists THEN "notfound"
  ELSE IF row.expiresAt < t THEN "expired"
  ELSE "ok"

\* the checks on the tokenRecord read: which branch the call takes
FindOutcome(row, t) ==
  IF ~row.exists THEN "notfound"
  ELSE IF row.isRevoked THEN "revoked"
  ELSE IF row.expiresAt < t THEN "expired"
  ELSE "ok"

\* what refreshTokens reads of its tokenRecord after the checks: the fields the
\* store never changes (id is the call's tokenId, user is userId's row)
TokenRecord(row) ==
  [NoRow EXCEPT !.exists = TRUE, !.userId = row.userId, !.createdAt = row.createdAt,
                !.expiresAt = row.expiresAt]

\* findUnique returns; not found and revoked throw, expired issues the delete
RefreshFind(p) ==
  /\ pc[p] = "rfFind"
  /\ LET row == FindUnique(arg[p].tokenId)
         out == FindOutcome(row, now)
     IN IF out \in {"notfound", "revoked"}
          THEN Finish(p, "unauthorized")
          ELSE /\ pc' = [pc EXCEPT ![p] = IF out = "expired" THEN "rfDelete" ELSE "rfTouch"]
               /\ snap' = [snap EXCEPT ![p] = TokenRecord(row)]
               /\ UNCHANGED <<arg, usnap, todo, res>>
  /\ UNCHANGED <<now, ticks, limit, tickLimit, isAdmin, cleanupLog, user, compared, raced, refreshToken, issued>>

\* prisma.refreshToken.delete of the expired row, then the call throws
RefreshDelete(p) ==
  /\ pc[p] = "rfDelete"
  /\ refreshToken' = [i \in DOMAIN refreshToken \ {arg[p].tokenId} |-> refreshToken[i]]
  /\ Finish(p, "unauthorized")
  /\ UNCHANGED <<now, ticks, limit, tickLimit, isAdmin, cleanupLog, user, compared, raced, issued>>

\* Touched writing the row back with the schema defaults of the other fields
Touched_ResetsRow(row, t) ==
  [row EXCEPT !.lastUsedAt = t, !.isRevoked = FALSE, !.revokedAt = Null, !.revokedReason = ""]

\* the row as the lastUsedAt update leaves it
Touched(row, t) == [row EXCEPT !.lastUsedAt = t]

\* update of lastUsedAt (a missing row makes the update throw)
RefreshTouch(p) ==
  /\ pc[p] = "rfTouch"
  /\ LET id == arg[p].tokenId
     IN IF id \in DOMAIN refreshToken
          THEN /\ refreshToken' = [refreshToken EXCEPT ![id] = Touched(@, now)]
               /\ pc' = [pc EXCEPT ![p] = "rfRevoke"]
               /\ UNCHANGED <<arg, snap, usnap, todo, res>>
          ELSE /\ Finish(p, "unauthorized")
               /\ UNCHANGED refreshToken
  /\ UNCHANGED <<now, ticks, limit, tickLimit, isAdmin, cleanupLog, user, compared, raced, issued>>

\* TOKEN ROTATION: the update that revokes the presented row
RefreshRevoke(p) ==
  /\ pc[p] = "rfRevoke"
  /\ LET id == arg[p].tokenId
     IN IF id \in DOMAIN refreshToken
          THEN /\ refreshToken' = [refreshToken EXCEPT ![id] = Revoked(@, now, "token_rotation")]
               /\ pc' = [pc EXCEPT ![p] = "rfCreate"]
               /\ UNCHANGED <<arg, snap, usnap, todo, res>>
          ELSE /\ Finish(p, "unauthorized")
               /\ UNCHANGED refreshToken
  /\ UNCHANGED <<now, ticks, limit, tickLimit, isAdmin, cleanupLog, user, compared, raced, issued>>

\* IsRememberMe with the 30-day lifetime itself as the cutoff
IsRememberMe_LongCutoff(row) == row.expiresAt - row.createdAt > REFRESH_TOKEN_EXPIRES_LONG

\* the "remember me" class read off the presented row
IsRememberMe(row) == row.expiresAt - row.createdAt > REMEMBER_ME_CUTOFF

\* generateTokenPair for the successor; the create may fail in the store,
\* and any error leaves the call as Unauthorized
RefreshCreate(p) ==
  /\ pc[p] = "rfCreate"
  /\ \/ /\ GenerateTokenPair(snap[p].userId, IsRememberMe(snap[p]), arg[p].tokenId)
        /\ Finish(p, "tokens")
     \/ /\ UNCHANGED <<refreshToken, issued>>
        /\ Finish(p, "unauthorized")
  /\ UNCHANGED <<now, ticks, limit, tickLimit, isAdmin, cleanupLog, user, compared, raced>>

----
\* AuthService.logout: verify, then one store operation; every error is swallowed
Logout(id, allDevices) ==
  /\ id \in 1..Len(issued)
  /\ IF ~JwtVerify(issued[id], now)
       THEN UNCHANGED refreshToken
       ELSE IF allDevices
         THEN refreshToken' =
                [i \in DOMAIN refreshToken |->
                   IF refreshToken[i].userId = issued[id].sub /\ ~refreshToken[i].isRevoked
                     THEN Revoked(refreshToken[i], now, "logout_all_devices")
                     ELSE refreshToken[i]]
         ELSE IF id \in DOMAIN refreshToken
           THEN refreshToken' = [refreshToken EXCEPT ![id] = Revoked(@, now, "logout")]
           ELSE UNCHANGED refreshToken
  /\ UNCHANGED <<now, ticks, limit, tickLimit, isAdmin, cleanupLog, user, usnap, compared, raced, issued, pc, arg, snap, todo, res>>

\* RevokeMatches without the userId filter
RevokeMatches_AnyOwner(u, id) ==
  {i \in DOMAIN refreshToken : i = id /\ ~refreshToken[i].isRevoked}

\* the rows revokeSession's updateMany matches
RevokeMatches(u, id) ==
  {i \in DOMAIN refreshToken : i = id /\ refreshToken[i].userId = u /\ ~refreshToken[i].isRevoked}

\* the store after AuthService.revokeSession(userId, tokenId)
AfterRevokeSession(u, id) ==
  [i \in DOMAIN refreshToken |->
     IF i \in RevokeMatches(u, id) THEN Revoked(refreshToken[i], now, "manual_revocation")
     ELSE refreshToken[i]]

\* AuthService.revokeSession
RevokeSession(u, id) ==
  /\ id \in 1..Len(issued)
  /\ refreshToken' = AfterRevokeSession(u, id)
  /\ UNCHANGED <<now, ticks, limit, tickLimit, isAdmin, cleanupLog, user, usnap, compared, raced, issued, pc, arg, snap, todo, res>>

\* ActiveSessions without the userId filter
ActiveSessions_AnyOwner(u) ==
  {i \in DOMAIN refreshToken : ~refreshToken[i].isRevoked /\ refreshToken[i].expiresAt > now}

\* ActiveSessions without the expiresAt filter
ActiveSessions_WithExpired(u) ==
  {i \in DOMAIN refreshToken : refreshToken[i].userId = u /\ ~refreshToken[i].isRevoked}

\* the rows getUserSessions selects
ActiveSessions(u) ==
  {i \in DOMAIN refreshToken :
     /\ refreshToken[i].userId = u
     /\ ~refreshToken[i].isRevoked
     /\ refreshToken[i].expiresAt > now}

\* the orders findMany may return them in: lastUsedAt descending
SessionLists(u) ==
  LET S == ActiveSessions(u)
      n == Cardinality(S)
  IN {s \in [1..n -> S] :
        /\ \A i, j \in 1..n : i # j => s[i] # s[j]
        /\ \A i, j \in 1..n : i < j => refreshToken[s[i]].lastUsedAt >= refreshToken[s[j]].lastUsedAt}

\* AuthController.revokeAllOtherSessions: getUserSessions ...
RevokeAllList(p, u) ==
  /\ pc[p] = "idle"
  /\ \E s \in SessionLists(u) : todo' = [todo EXCEPT ![p] = s]
  /\ pc' = [pc EXCEPT ![p] = "raLoop"]
  /\ arg' = [arg EXCEPT ![p] = [NoArg EXCEPT !.op = "revokeAll", !.userId = u]]
  /\ res' = [res EXCEPT ![p] = "none"]
  /\ UNCHANGED <<now, ticks, limit, tickLimit, isAdmin, cleanupLog, user, usnap, compared, raced, refreshToken, issued, snap>>

\* ... then revokeSession for each session of the list
RevokeAllStep(p) ==
  /\ pc[p] = "raLoop"
  /\ IF todo[p] = <<>>
       THEN /\ Finish(p, "ok")
            /\ UNCHANGED refreshToken
       ELSE /\ refreshToken' = AfterRevokeSession(arg[p].userId, Head(todo[p]))
            /\ todo' = [todo EXCEPT ![p] = Tail(@)]
            /\ UNCHANGED <<pc, arg, snap, usnap, res>>
  /\ UNCHANGED <<now, ticks, limit, tickLimit, isAdmin, cleanupLog, user, compared, raced, issued>>

\* Stale with both comparisons inclusive
Stale_Inclusive(row, t) ==
  \/ row.expiresAt <= t
  \/ row.isRevoked /\ row.revokedAt <= t - REVOKED_RETENTION

\* the rows cleanupExpiredTokens' deleteMany matches
Stale(row, t) ==
  \/ row.expiresAt < t
  \/ row.isRevoked /\ row.revokedAt < t - REVOKED_RETENTION

\* Swept deleting one matching row, the oldest, per run
Swept_OneAtATime(t) ==
  LET S == {j \in DOMAIN refreshToken : Stale(refreshToken[j], t)}
  IN [i \in {j \in DOMAIN refreshToken : j \notin S \/ \E k \in S : k < j} |-> refreshToken[i]]

\* the store after cleanupExpiredTokens' deleteMany at time t
Swept(t) ==
  [i \in {j \in DOMAIN refreshToken : ~Stale(refreshToken[j], t)} |-> refreshToken[i]]

\* AuthService.cleanupExpiredTokens
Cleanup ==
  /\ refreshToken' = Swept(now)
  /\ UNCHANGED <<now, ticks, limit, tickLimit, isAdmin, cleanupLog, user, usnap, compared, raced, issued, pc, arg, snap, todo, res>>

----
\* TokenCleanupService: the two cron handlers around cleanupExpiredTokens

\* result.count
CleanedCount(t) == Cardinality({j \in DOMAIN refreshToken : Stale(refreshToken[j], t)})

\* CleanupLogged without the handlers' try/catch: the error leaves the handler
CleanupLogged_NoCatch(storeFails, line) == IF storeFails THEN "uncaught" ELSE line

\* the handlers' try/catch: a failure of the store operation is logged
CleanupLogged(storeFails, line) == IF storeFails THEN "failed" ELSE line

\* @Cron(EVERY_DAY_AT_2AM) handleCleanupExpiredTokens; storeFails: deleteMany rejects
HandleCleanupExpiredTokens(storeFails) ==
  /\ refreshToken' = IF storeFails THEN refreshToken ELSE Swept(now)
  /\ cleanupLog' = CleanupLogged(storeFails, "completed")
  /\ UNCHANGED <<now, ticks, limit, tickLimit, isAdmin, user, usnap, compared, raced, issued,
                 pc, arg, snap, todo, res>>

\* @Cron(EVERY_HOUR) handleHourlyCleanup: success is logged only when rows were removed
HandleHourlyCleanup(storeFails) ==
  /\ refreshToken' = IF storeFails THEN refreshToken ELSE Swept(now)
  /\ cleanupLog' = CleanupLogged(storeFails, IF CleanedCount(now) > 0 THEN "hourly"
                                             ELSE cleanupLog)
  /\ UNCHANGED <<now, ticks, limit, tickLimit, isAdmin, user, usnap, compared, raced, issued,
                 pc, arg, snap, todo, res>>

----
\* AuthController.login: AuthService.validateUser, then AuthService.login

\* the password comparisons a call in flight will still make
Comparing(u) == Cardinality({p \in Procs : pc[p] \in {"vFind", "vCompare"} /\ arg[p].email = u})

\* the request arrives and findUnique is issued
LoginStart(p, email, pw, rememberMe) ==
  /\ pc[p] = "idle"
  /\ BcryptCompare(pw, StoredHash(email)) => CanCreate
  /\ email \in Users => Len(compared[email]) + Comparing(email) < MaxCompares
  /\ pc' = [pc EXCEPT ![p] = "vFind"]
  /\ arg' = [arg EXCEPT ![p] = [NoArg EXCEPT !.op = "login", !.email = email,
                                             !.password = pw, !.rememberMe = rememberMe]]
  /\ res' = [res EXCEPT ![p] = "none"]
  /\ UNCHANGED <<now, ticks, limit, tickLimit, isAdmin, cleanupLog, user, usnap, compared, raced, refreshToken, issued,
                 snap, todo>>

\* IsLocked with the comparison turned round
IsLocked_Reversed(u, t) == u.lockedUntil # Null /\ u.lockedUntil < t

\* IsLocked without the comparison with the clock
IsLocked_NoExpiry(u, t) == u.lockedUntil # Null

\* user.lockedUntil && user.lockedUntil > new Date()
IsLocked(u, t) == u.lockedUntil # Null /\ u.lockedUntil > t

\* findUnique returns: no user is Invalid credentials, a locked account throws
ValidateFind(p) ==
  /\ pc[p] = "vFind"
  /\ IF arg[p].email \notin Users
       THEN Finish(p, "invalid")
       ELSE IF IsLocked(user[arg[p].email], now)
         THEN Finish(p, "locked")
         ELSE /\ pc' = [pc EXCEPT ![p] = "vCompare"]
              /\ usnap' = [usnap EXCEPT ![p] = user[arg[p].email]]
              /\ UNCHANGED <<arg, snap, todo, res>>
  /\ UNCHANGED <<now, ticks, limit, tickLimit, isAdmin, cleanupLog, user, compared, raced, refreshToken, issued>>

\* ShouldLock locking only above the threshold
ShouldLock_Above(newFailedAttempts) == newFailedAttempts > LOCK_THRESHOLD

\* newFailedAttempts >= 10
ShouldLock(newFailedAttempts) == newFailedAttempts >= LOCK_THRESHOLD

\* AfterMatch clearing the lock but not the counter
AfterMatch_KeepsCounter(u) == [failedLoginAttempts |-> u.failedLoginAttempts, lockedUntil |-> Null]

\* the fields validateUser writes when the password matches
AfterMatch(u) == [failedLoginAttempts |-> 0, lockedUntil |-> Null]

\* the fields validateUser writes when the password does not match, from the user it read
AfterMismatch(u, t) ==
  [failedLoginAttempts |-> u.failedLoginAttempts + 1,
   lockedUntil |-> IF ShouldLock(u.failedLoginAttempts + 1) THEN t + LOCK_DURATION
                   ELSE u.lockedUntil]

\* bcrypt.compare returns and the user row is updated: a match goes on to
\* AuthService.login, a mismatch ends Invalid credentials or Account has been locked
ValidateCompare(p) ==
  /\ pc[p] = "vCompare"
  /\ LET u == arg[p].email
     IN IF BcryptCompare(arg[p].password, StoredHash(u))
          THEN /\ user' = [user EXCEPT ![u] = AfterMatch(usnap[p])]
               /\ compared' = [compared EXCEPT ![u] = <<>>]
               /\ raced' = [raced EXCEPT ![u] = FALSE]
               /\ pc' = [pc EXCEPT ![p] = "lgCreate"]
               /\ UNCHANGED <<arg, snap, usnap, todo, res>>
          ELSE /\ user' = [user EXCEPT ![u] = AfterMismatch(usnap[p], now)]
               /\ compared' = [compared EXCEPT ![u] = Append(@, now)]
               /\ raced' = [raced EXCEPT ![u] = @ \/ usnap[p] # user[u]]
               /\ Finish(p, IF ShouldLock(usnap[p].failedLoginAttempts + 1)
                              THEN "lockedNow" ELSE "invalid")
  /\ UNCHANGED <<now, ticks, limit, tickLimit, isAdmin, cleanupLog, refreshToken, issued>>

\* AuthService.login for the validated user
LoginCreate(p) ==
  /\ pc[p] = "lgCreate"
  /\ GenerateTokenPair(arg[p].email, arg[p].rememberMe, 0)
  /\ Finish(p, "tokens")
  /\ UNCHANGED <<now, ticks, limit, tickLimit, isAdmin, cleanupLog, user, compared, raced>>

\* AuthService.unlockAccount (administrative)
UnlockAccount(email) ==
  /\ user' = [user EXCEPT ![email] = [failedLoginAttempts |-> 0, lockedUntil |-> Null]]
  /\ compared' = [compared EXCEPT ![email] = <<>>]
  /\ raced' = [raced EXCEPT ![email] = FALSE]
  /\ UNCHANGED <<now, ticks, limit, tickLimit, isAdmin, cleanupLog, usnap, refreshToken, issued, pc, arg, snap,
                 todo, res>>

----
\* the requests of the service, without the controller's revoke-all loop
Next ==
  \/ \E d \in TickSteps : Tick(d)
  \/ \E u \in LoginUsers, rm \in BOOLEAN : Login(u, rm)
  \/ \E p \in Procs, id \in 1..MaxRaceSessions : RefreshStart(p, id)
  \/ \E p \in Procs : RefreshFind(p)
  \/ \E p \in Procs : RefreshDelete(p)
  \/ \E p \in Procs : RefreshTouch(p)
  \/ \E p \in Procs : RefreshRevoke(p)
  \/ \E p \in Procs : RefreshCreate(p)
  \/ \E id \in 1..MaxRaceSessions, all \in BOOLEAN : Logout(id, all)
  \/ \E u \in Users, id \in 1..MaxRaceSessions : RevokeSession(u, id)
  \/ Cleanup

\* ... and with it
NextSessions ==
  \/ Next
  \/ \E p \in RevokeAllProcs, u \in LoginUsers : RevokeAllList(p, u)
  \/ \E p \in RevokeAllProcs : RevokeAllStep(p)

Spec == Init /\ [][Next]_vars

SpecRace == InitRace /\ [][Next]_vars

SpecSessions == Init /\ [][NextSessions]_vars

\* the login requests one after the other, the administrative unlock and the clock
InitLock == InitWith(MaxLogins, MaxLockTicks)

NextLock ==
  \/ \E d \in LockTickSteps : Tick(d)
  \/ \E p \in LockProcs, e \in Emails, pw \in Passwords : LoginStart(p, e, pw, FALSE)
  \/ \E p \in LockProcs : ValidateFind(p)
  \/ \E p \in LockProcs : ValidateCompare(p)
  \/ \E p \in LockProcs : LoginCreate(p)
  \/ \E e \in LoginUsers : UnlockAccount(e)

SpecLock == InitLock /\ [][NextLock]_vars

\* concurrent login requests on one account, at one instant
NextLockRace ==
  \/ \E p \in Procs, e \in LoginUsers, pw \in Passwords : LoginStart(p, e, pw, FALSE)
  \/ \E p \in Procs : ValidateFind(p)
  \/ \E p \in Procs : ValidateCompare(p)
  \/ \E p \in Procs : LoginCreate(p)

SpecLockRace == InitLock /\ [][NextLockRace]_vars

----
\* Tokens as the clients present them

\* no token, a string that is no JWT of this issuer
NoToken == [kind |-> "none", id |-> 0]

Garbage == [kind |-> "garbage", id |-> 0]

\* ... or the access token or the refresh wrapper signed together with row id
Presented ==
  {NoToken, Garbage} \cup [kind : {"access", "refresh"}, id : 1..Len(issued)]

\* the access token's payload (email and isAdmin are not read by the service)
AccessTokenPayload(u, t) ==
  [sub |-> u, iat |-> t, exp |-> t + ACCESS_TOKEN_EXPIRES_IN, type |-> "access"]

\* what jwtService.verify returns for a token it accepts
Payload(tok) ==
  IF tok.kind = "access"
    THEN AccessTokenPayload(issued[tok.id].sub, issued[tok.id].iat)
    ELSE issued[tok.id]

\* jwtService.verify accepts the token: signed by this issuer and not expired
Verifies(tok, t) ==
  /\ tok.kind \in {"access", "refresh"}
  /\ JwtVerify(Payload(tok), t)

\* GuardAccepts asking also for a non-revoked session row of the account
GuardAccepts_NeedsSession(tok, t) ==
  /\ Verifies(tok, t)
  /\ Payload(tok).sub \in Users
  /\ \E i \in DOMAIN refreshToken :
       refreshToken[i].userId = Payload(tok).sub /\ ~refreshToken[i].isRevoked

\* JwtStrategy: signature and exp are checked, then the user is looked up
GuardAccepts(tok, t) ==
  /\ Verifies(tok, t)
  /\ Payload(tok).sub \in Users

----
\* AuthController.logout over AuthService.logout

\* AfterLogout with the all-devices updateMany not filtered by userId
AfterLogout_AllAccounts(tok, allDevices, t) ==
  IF allDevices
    THEN [i \in DOMAIN refreshToken |->
            IF ~refreshToken[i].isRevoked
              THEN Revoked(refreshToken[i], t, "logout_all_devices")
              ELSE refreshToken[i]]
    ELSE IF tok.kind = "refresh" /\ tok.id \in DOMAIN refreshToken
      THEN [refreshToken EXCEPT ![tok.id] = Revoked(@, t, "logout")]
      ELSE refreshToken

\* AfterLogout with the single-session update matching by userId instead of id
AfterLogout_ByOwner(tok, allDevices, t) ==
  [i \in DOMAIN refreshToken |->
     IF refreshToken[i].userId = Payload(tok).sub /\ (allDevices => ~refreshToken[i].isRevoked)
       THEN Revoked(refreshToken[i], t, IF allDevices THEN "logout_all_devices" ELSE "logout")
       ELSE refreshToken[i]]

\* the store after AuthService.logout's store operation for a verified token; the
\* single-session update throws, changing nothing, when the payload has no
\* tokenId or the row is gone
AfterLogout(tok, allDevices, t) ==
  IF allDevices
    THEN [i \in DOMAIN refreshToken |->
            IF refreshToken[i].userId = Payload(tok).sub /\ ~refreshToken[i].isRevoked
              THEN Revoked(refreshToken[i], t, "logout_all_devices")
              ELSE refreshToken[i]]
    ELSE IF tok.kind = "refresh" /\ tok.id \in DOMAIN refreshToken
      THEN [refreshToken EXCEPT ![tok.id] = Revoked(@, t, "logout")]
      ELSE refreshToken

\* AuthService.logout's catch: whatever failed, the call returns
LogoutThrows(failed) == FALSE

\* LogoutResponse with the refresh endpoint's handling of a missing token and
\* of errors
LogoutResponse_AsRefresh(tok, allDevices, threw) ==
  IF tok.kind = "none" THEN "Refresh token not provided"
  ELSE IF threw THEN "unauthorized"
  ELSE IF allDevices THEN "Successfully logged out from all devices"
  ELSE "Successfully logged out"

\* the controller's answer
LogoutResponse(tok, allDevices, threw) ==
  IF tok.kind = "none" THEN "Logout successful"
  ELSE IF threw THEN "Logout successful"
  ELSE IF allDevices THEN "Successfully logged out from all devices"
  ELSE "Successfully logged out"

\* POST /auth/logout; storeFails: the store operation fails
LogoutRequest(p, tok, allDevices, storeFails) ==
  /\ pc[p] = "idle"
  /\ tok \in Presented
  /\ LET done == tok.kind # "none" /\ Verifies(tok, now) /\ ~storeFails
         after == IF done THEN AfterLogout(tok, allDevices, now) ELSE refreshToken
         failed == tok.kind # "none" /\ (~done \/ (~allDevices /\ after = refreshToken))
     IN /\ refreshToken' = after
        /\ res' = [res EXCEPT ![p] = LogoutResponse(tok, allDevices, LogoutThrows(failed))]
  /\ UNCHANGED <<now, ticks, limit, tickLimit, isAdmin, cleanupLog, user, usnap, compared, raced, issued, pc,
                 arg, snap, todo>>

\* POST /auth/refresh with anything but a refresh wrapper: no token is a Bad
\* Request, a token that fails verify or the type check is Unauthorized
RefreshWrongToken(p, tok) ==
  /\ pc[p] = "idle"
  /\ tok \in Presented
  /\ tok.kind # "refresh"
  /\ res' = [res EXCEPT ![p] =
               IF tok.kind = "none" THEN "Refresh token not provided"
               ELSE IF Verifies(tok, now) /\ Payload(tok).type = "refresh" THEN "none"
               ELSE "unauthorized"]
  /\ UNCHANGED <<now, ticks, limit, tickLimit, isAdmin, cleanupLog, user, usnap, compared, raced, refreshToken,
                 issued, pc, arg, snap, todo>>

----
\* The guarded session endpoints

\* AuthController.revokeSession's answer: success unless revokeSession threw
RevokeSessionResponse(threw) ==
  IF threw THEN "Session not found or already revoked" ELSE "Session revoked successfully"

\* DELETE /auth/sessions/:tokenId by the bearer of tok
RevokeSessionRequest(p, tok, id, storeFails) ==
  /\ pc[p] = "idle"
  /\ tok \in Presented
  /\ IF GuardAccepts(tok, now)
       THEN /\ refreshToken' = IF storeFails THEN refreshToken
                               ELSE AfterRevokeSession(Payload(tok).sub, id)
            /\ res' = [res EXCEPT ![p] = RevokeSessionResponse(storeFails)]
       ELSE /\ UNCHANGED refreshToken
            /\ res' = [res EXCEPT ![p] = "unauthorized"]
  /\ UNCHANGED <<now, ticks, limit, tickLimit, isAdmin, cleanupLog, user, usnap, compared, raced, issued, pc,
                 arg, snap, todo>>

\* GET /auth/sessions by the bearer of tok: the list is kept in todo
GetUserSessions(p, tok) ==
  /\ pc[p] = "idle"
  /\ tok \in Presented
  /\ GuardAccepts(tok, now)
  /\ \E s \in SessionLists(Payload(tok).sub) : todo' = [todo EXCEPT ![p] = s]
  /\ res' = [res EXCEPT ![p] = "sessions"]
  /\ UNCHANGED <<now, ticks, limit, tickLimit, isAdmin, cleanupLog, user, usnap, compared, raced, refreshToken,
                 issued, pc, arg, snap>>

\* GET /auth/profile with tok as the bearer token
GetProfile(p, tok) ==
  /\ pc[p] = "idle"
  /\ tok \in Presented
  /\ res' = [res EXCEPT ![p] = IF GuardAccepts(tok, now) THEN "profile" ELSE "unauthorized"]
  /\ UNCHANGED <<now, ticks, limit, tickLimit, isAdmin, cleanupLog, user, usnap, compared, raced, refreshToken,
                 issued, pc, arg, snap, todo>>

\* the administrative flag of an account is written in the store, outside the
\* service (registration leaves it false)
GrantAdmin(u, b) ==
  /\ isAdmin' = [isAdmin EXCEPT ![u] = b]
  /\ UNCHANGED <<now, ticks, limit, tickLimit, cleanupLog, user, usnap, compared, raced,
                 refreshToken, issued, pc, arg, snap, todo, res>>

\* AdminGuard.canActivate: JwtAuthGuard first, then the isAdmin field of the user
\* row JwtStrategy.validate has just read
AdminGuard(tok, t) ==
  IF ~GuardAccepts(tok, t) THEN "unauthorized"
  ELSE IF ~isAdmin[Payload(tok).sub] THEN "forbidden"
  ELSE "allowed"

\* POST /auth/check-lockout with tok as the bearer token: isAccountLocked(email)
\* behind AdminGuard
CheckLockoutStatus(p, tok, email) ==
  /\ pc[p] = "idle"
  /\ tok \in Presented
  /\ res' = [res EXCEPT ![p] = IF AdminGuard(tok, now) = "allowed" THEN "lockoutStatus"
                                ELSE AdminGuard(tok, now)]
  /\ UNCHANGED <<now, ticks, limit, tickLimit, isAdmin, cleanupLog, user, usnap, compared, raced,
                 refreshToken, issued, pc, arg, snap, todo>>

\* logout requests with every kind of token, for the sessions of two accounts
NextLogout ==
  \/ \E d \in TickSteps : Tick(d)
  \/ \E u \in Users, rm \in BOOLEAN : Login(u, rm)
  \/ \E p \in EndpointProcs, tok \in Presented, all \in BOOLEAN, f \in BOOLEAN :
       LogoutRequest(p, tok, all, f)
  \/ Cleanup

SpecLogout == Init /\ [][NextLogout]_vars

\* logout of one device or of all devices with a store that answers, for the
\* sessions of two accounts
NextLogoutAll ==
  \/ \E d \in TickSteps : Tick(d)
  \/ \E u \in Users : Login(u, FALSE)
  \/ \E p \in EndpointProcs, tok \in Presented, all \in BOOLEAN :
       LogoutRequest(p, tok, all, FALSE)
  \/ Cleanup

SpecLogoutAll == Init /\ [][NextLogoutAll]_vars

\* the refresh and logout endpoints with every kind of token, for the sessions of
\* one account
NextTokenType ==
  \/ \E d \in TickSteps : Tick(d)
  \/ \E u \in LoginUsers, rm \in BOOLEAN : Login(u, rm)
  \/ \E p \in EndpointProcs, tok \in Presented, all \in BOOLEAN, f \in BOOLEAN :
       LogoutRequest(p, tok, all, f)
  \/ \E p \in EndpointProcs, tok \in Presented : RefreshWrongToken(p, tok)

SpecTokenType == Init /\ [][NextTokenType]_vars

\* session revocation by the bearer of a token and the revoke-all loop, for the
\* sessions of two accounts
NextManage ==
  \/ \E d \in TickSteps : Tick(d)
  \/ \E u \in Users, rm \in BOOLEAN : Login(u, rm)
  \/ \E p \in EndpointProcs, tok \in Presented, id \in SessionIds, f \in BOOLEAN :
       RevokeSessionRequest(p, tok, id, f)
  \/ \E p \in EndpointProcs, u \in Users : RevokeAllList(p, u)
  \/ \E p \in EndpointProcs : RevokeAllStep(p)

SpecManage == Init /\ [][NextManage]_vars

\* the session list, for the sessions of two accounts as logouts and the clock
\* leave them
NextList ==
  \/ \E d \in TickSteps : Tick(d)
  \/ \E u \in Users, rm \in BOOLEAN : Login(u, rm)
  \/ \E id \in 1..MaxRaceSessions, all \in BOOLEAN : Logout(id, all)
  \/ \E p \in EndpointProcs, tok \in Presented : GetUserSessions(p, tok)

SpecList == Init /\ [][NextList]_vars

\* the guard against everything that writes the session rows
NextGuard ==
  \/ \E d \in TickSteps : Tick(d)
  \/ \E u \in LoginUsers, rm \in BOOLEAN : Login(u, rm)
  \/ \E p \in EndpointProcs, id \in 1..MaxRaceSessions : RefreshStart(p, id)
  \/ \E p \in EndpointProcs : RefreshFind(p)
  \/ \E p \in EndpointProcs : RefreshDelete(p)
  \/ \E p \in EndpointProcs : RefreshTouch(p)
  \/ \E p \in EndpointProcs : RefreshRevoke(p)
  \/ \E p \in EndpointProcs : RefreshCreate(p)
  \/ \E id \in 1..MaxRaceSessions, all \in BOOLEAN : Logout(id, all)
  \/ \E u \in Users, id \in 1..MaxRaceSessions : RevokeSession(u, id)
  \/ \E p \in EndpointProcs, tok \in Presented : GetProfile(p, tok)
  \/ Cleanup

SpecGuard == Init /\ [][NextGuard]_vars

\* the guarded endpoints with every kind of token, for two accounts whose sessions
\* are revoked and swept and whose administrative flag is granted and withdrawn
NextAdmin ==
  \/ \E d \in TickSteps : Tick(d)
  \/ \E u \in Users : Login(u, FALSE)
  \/ \E u \in Users, b \in BOOLEAN : GrantAdmin(u, b)
  \/ \E u \in Users, id \in 1..MaxRaceSessions : RevokeSession(u, id)
  \/ Cleanup
  \/ \E p \in EndpointProcs, tok \in Presented : GetProfile(p, tok)
  \/ \E p \in EndpointProcs, tok \in Presented : GetUserSessions(p, tok)
  \/ \E p \in EndpointProcs, tok \in Presented, id \in SessionIds :
       RevokeSessionRequest(p, tok, id, FALSE)
  \/ \E p \in EndpointProcs, tok \in Presented, e \in Users : CheckLockoutStatus(p, tok, e)

SpecAdmin == Init /\ [][NextAdmin]_vars

\* the cleanup handlers beside logins, logouts and revocations of one account,
\* with clock steps of one session lifetime and of the retention window
InitCleanup == InitWith(MaxSessions, MaxLockTicks)

NextCleanup ==
  \/ \E d \in CleanupTickSteps : Tick(d)
  \/ \E u \in LoginUsers, rm \in BOOLEAN : Login(u, rm)
  \/ \E id \in 1..MaxRaceSessions : Logout(id, FALSE)
  \/ \E u \in LoginUsers, id \in 1..MaxRaceSessions : RevokeSession(u, id)
  \/ \E f \in BOOLEAN : HandleCleanupExpiredTokens(f)
  \/ \E f \in BOOLEAN : HandleHourlyCleanup(f)

SpecCleanup == InitCleanup /\ [][NextCleanup]_vars

\* the cleanup handlers beside logins and revocations, with the daily trigger
\* recurring and the store answering it in the end
NextCleanupLive ==
  \/ \E d \in TickSteps : Tick(d)
  \/ \E u \in LoginUsers, rm \in BOOLEAN : Login(u, rm)
  \/ \E u \in LoginUsers, id \in 1..MaxRaceSessions : RevokeSession(u, id)
  \/ \E f \in BOOLEAN : HandleCleanupExpiredTokens(f)
  \/ \E f \in BOOLEAN : HandleHourlyCleanup(f)

SpecCleanupLive ==
  Init /\ [][NextCleanupLive]_vars /\ WF_vars(HandleCleanupExpiredTokens(FALSE))

\* everything that writes the 24 h session rows of one account, with room for a
\* row beside the presented one and its successor
NextDeletes ==
  \/ \E d \in TickSteps : Tick(d)
  \/ \E u \in LoginUsers : Login(u, FALSE)
  \/ \E p \in EndpointProcs, id \in 1..MaxRaceSessions : RefreshStart(p, id)
  \/ \E p \in EndpointProcs : RefreshFind(p)
  \/ \E p \in EndpointProcs : RefreshDelete(p)
  \/ \E p \in EndpointProcs : RefreshTouch(p)
  \/ \E p \in EndpointProcs : RefreshRevoke(p)
  \/ \E p \in EndpointProcs : RefreshCreate(p)
  \/ \E id \in 1..MaxRaceSessions : Logout(id, FALSE)
  \/ \E u \in LoginUsers, id \in 1..MaxRaceSessions : RevokeSession(u, id)
  \/ Cleanup

SpecDeletes == InitRace /\ [][NextDeletes]_vars

\* two accounts, each served by a handler of its own: the requests of the one
\* interleave with the requests of the other at every store operation
AccountOf == [p \in Procs |-> IF p = "p1" THEN "u1" ELSE "u2"]

\* what the client of account u can present: its own tokens, none, or no JWT
TokensOf(u) ==
  {tok \in Presented : tok.kind \in {"access", "refresh"} => issued[tok.id].sub = u}

\* a store operation of a login request that handler p serves for its account
LoginStepOf(p) ==
  \/ \E pw \in Passwords :
       /\ Len(compared[AccountOf[p]]) < MaxAttempts
       /\ LoginStart(p, AccountOf[p], pw, FALSE)
  \/ ValidateFind(p)
  \/ ValidateCompare(p)
  \/ LoginCreate(p)

\* a store operation of a refresh, logout or session-management request that
\* handler p serves for its account (at one instant: no row expires)
SessionStepOf(p) ==
  \/ \E id \in 1..MaxRaceSessions : id <= Len(issued) /\ issued[id].sub = AccountOf[p]
                                       /\ RefreshStart(p, id)
  \/ RefreshFind(p)
  \/ RefreshTouch(p)
  \/ RefreshRevoke(p)
  \/ RefreshCreate(p)
  \/ \E tok \in TokensOf(AccountOf[p]), all \in BOOLEAN : LogoutRequest(p, tok, all, FALSE)
  \/ \E tok \in TokensOf(AccountOf[p]), id \in SessionIds :
       RevokeSessionRequest(p, tok, id, FALSE)
  \/ RevokeAllList(p, AccountOf[p])
  \/ RevokeAllStep(p)

StepOf(p) == LoginStepOf(p) \/ SessionStepOf(p)

\* the one account makes every kind of request, the other logs in
NextAccounts ==
  \/ \E p \in Procs : LoginStepOf(p)
  \/ \E p \in EndpointProcs : SessionStepOf(p)

SpecAccounts == Init /\ [][NextAccounts]_vars

\* logins and one handler's rotations under the clock
NextChain ==
  \/ \E d \in TickSteps : Tick(d)
  \/ \E u \in LoginUsers, rm \in BOOLEAN : Login(u, rm)
  \/ \E p \in LockProcs, id \in 1..MaxRaceSessions : RefreshStart(p, id)
  \/ \E p \in LockProcs : RefreshFind(p)
  \/ \E p \in LockProcs : RefreshDelete(p)
  \/ \E p \in LockProcs : RefreshTouch(p)
  \/ \E p \in LockProcs : RefreshRevoke(p)
  \/ \E p \in LockProcs : RefreshCreate(p)

SpecChain == InitRace /\ [][NextChain]_vars

----
\* Rotation chains

Ids == 1..Len(issued)

\* the rows created by refresh calls that presented row id
Successors(id) == {j \in Ids : issued[j].parent = id}

RECURSIVE Root(_)
\* the login row a row descends from
Root(id) == IF issued[id].parent = 0 THEN id ELSE Root(issued[id].parent)

LiveRows == {i \in DOMAIN refreshToken : ~refreshToken[i].isRevoked}

----
\* C1: of all the refreshTokens calls that present one refresh token, in any
\* interleaving, at most one returns a token pair (a call returns a pair exactly
\* when it has created the successor row) and the others end Unauthorized.
C1_SingleUse ==
  \A id \in Ids : Cardinality(Successors(id)) <= 1

\* C2: rotation is all-or-nothing: in every state the presented row is revoked
\* with reason rotation only if its successor row has been created, and a row
\* with a successor is revoked.
C2_RotationAtomic ==
  \A id \in DOMAIN refreshToken :
    /\ refreshToken[id].revokedReason = "token_rotation" => Successors(id) # {}
    /\ Successors(id) # {} => refreshToken[id].isRevoked

\* C3: in every state at most one row of a rotation chain is non-revoked.
C3_OneLivePerChain ==
  \A r \in Ids : Cardinality({i \in LiveRows : Root(i) = r}) <= 1

\* C4: a refreshTokens call started when the presented row was already revoked
\* gets no further than the check of the row it reads (it never updates the row
\* nor creates a successor) and ends Unauthorized.
C4_RevokedTokenRefused ==
  \A p \in Procs :
    arg[p].revokedAtStart =>
      /\ pc[p] \in {"idle", "rfFind"}
      /\ pc[p] = "idle" => res[p] = "unauthorized"

\* a call on a revoked row has been refused, with every wrapper still unexpired
C4_Witness ==
  \E p \in Procs :
    /\ arg[p].revokedAtStart
    /\ pc[p] = "idle"
    /\ res[p] = "unauthorized"
    /\ now = 0

\* C5: once a row's isRevoked is true it is true for as long as the row exists.
C5_RevocationMonotonic ==
  [][\A id \in DOMAIN refreshToken :
       (refreshToken[id].isRevoked /\ id \in DOMAIN refreshToken')
         => refreshToken'[id].isRevoked]_vars

\* a row revoked by its rotation has since been written by a logout, and is revoked
C5_Witness ==
  \E id \in DOMAIN refreshToken :
    /\ Successors(id) # {}
    /\ refreshToken[id].revokedReason = "logout"
    /\ refreshToken[id].isRevoked

----
\* Lockout

\* the step in which handler p's bcrypt.compare returns a mismatch
Mismatches(p) ==
  /\ pc[p] = "vCompare"
  /\ pc'[p] = "idle"

\* the step in which handler p's bcrypt.compare returns a match
Matches(p) ==
  /\ pc[p] = "vCompare"
  /\ pc'[p] = "lgCreate"

\* the step in which handler p's read of the user row returns
Reads(p) ==
  /\ pc[p] = "vFind"
  /\ pc'[p] # "vFind"
  /\ arg[p].email \in Users

\* C6: of the wrong-password attempts made on an account one after the other
\* since its last successful login or unlock (each writing from the user row as
\* the one before left it), the first 9 leave lockedUntil null and fail with
\* Invalid credentials, and the 10th sets lockedUntil to the time of that
\* attempt plus 24 hours and fails with the account-locked error.
C6_LockAtTenth ==
  [][\A p \in Procs :
       LET u == arg[p].email
           n == Len(compared'[u])
       IN (Mismatches(p) /\ ~raced'[u]) =>
            /\ n < 10 => (user'[u].lockedUntil = Null /\ res'[p] = "invalid")
            /\ n = 10 => (user'[u].lockedUntil = now + 86400 /\ res'[p] = "lockedNow")]_vars

\* the 10th wrong attempt in a row has just been refused and has locked the account
C6_Witness ==
  \E p \in Procs :
    /\ pc[p] = "idle"
    /\ res[p] = "lockedNow"
    /\ arg[p].email \in Users
    /\ Len(compared[arg[p].email]) = 10
    /\ ~raced[arg[p].email]
    /\ user[arg[p].email].lockedUntil = now + 86400

\* C7: a validateUser call that has passed the lock check and presents the
\* correct password returns the account (the request goes on to create its
\* session) and writes failedLoginAttempts = 0 and lockedUntil = null, whatever
\* the counter it read.
C7_SuccessResets ==
  [][\A p \in Procs :
       LET u == arg[p].email
       IN /\ (pc[p] = "vCompare" /\ pc'[p] # "vCompare"
                /\ BcryptCompare(arg[p].password, StoredHash(u))) => Matches(p)
          /\ Matches(p) =>
               /\ user'[u].failedLoginAttempts = 0
               /\ user'[u].lockedUntil = Null]_vars

\* a correct password has been accepted on an account with 9 failed attempts counted
C7_Witness ==
  \E p \in Procs :
    /\ pc[p] = "lgCreate"
    /\ usnap[p].failedLoginAttempts = 9
    /\ user[arg[p].email].failedLoginAttempts = 0
    /\ user[arg[p].email].lockedUntil = Null

\* C8: a validateUser call that reads the account while its lockedUntil is in the
\* future fails with the account-locked error without comparing the password,
\* whatever the password, and the step leaves the user rows (failedLoginAttempts,
\* lockedUntil) and the session rows as they were.
C8_LockedRefused ==
  [][\A p \in Procs :
       LET u == arg[p].email
       IN (Reads(p) /\ user[u].lockedUntil # Null /\ user[u].lockedUntil > now) =>
            /\ pc'[p] = "idle"
            /\ res'[p] = "locked"
            /\ user' = user
            /\ compared' = compared
            /\ refreshToken' = refreshToken
            /\ issued' = issued]_vars

\* a call with the correct password has been refused on a locked account
C8_Witness ==
  \E p \in Procs :
    /\ pc[p] = "idle"
    /\ res[p] = "locked"
    /\ arg[p].email \in Users
    /\ BcryptCompare(arg[p].password, StoredHash(arg[p].email))
    /\ user[arg[p].email].lockedUntil > now
    /\ user[arg[p].email].failedLoginAttempts = 10
    /\ refreshToken = <<>>

\* C9: for every account, the password comparisons made since its last
\* successful login or unlock number at most 10 in any 24-hour window, whatever
\* the interleaving of the login requests.
C9_TenPerWindow ==
  \A u \in Users :
    \A i \in 1..Len(compared[u]) :
      Cardinality({j \in i..Len(compared[u]) : compared[u][j] < compared[u][i] + 86400}) <= 10

\* C10: once the clock has reached or passed an account's lockedUntil, a
\* validateUser call that reads the account is not refused as locked, and with
\* the correct password it returns the account and writes failedLoginAttempts = 0
\* and lockedUntil = null; no administrative unlock is involved.
C10_AutoUnlock ==
  [][\A p \in Procs :
       LET u == arg[p].email
       IN /\ (Reads(p) /\ user[u].lockedUntil # Null /\ user[u].lockedUntil <= now) =>
               /\ pc'[p] = "vCompare"
               /\ usnap'[p] = user[u]
          /\ (pc[p] = "vCompare" /\ pc'[p] # "vCompare" /\ usnap[p].lockedUntil # Null
                /\ BcryptCompare(arg[p].password, StoredHash(u))) =>
               /\ Matches(p)
               /\ user'[u] = [failedLoginAttempts |-> 0, lockedUntil |-> Null]]_vars

\* a correct password has been accepted after the lock the call read had run out
C10_Witness ==
  \E p \in Procs :
    /\ pc[p] = "lgCreate"
    /\ usnap[p].lockedUntil # Null
    /\ usnap[p].lockedUntil < now
    /\ usnap[p].failedLoginAttempts >= 10
    /\ user[arg[p].email] = [failedLoginAttempts |-> 0, lockedUntil |-> Null]

----
\* Responses to failed logins

\* C11: every failed login gets the same outward response whether or not the
\* email is registered: a login that fails for an unregistered email and a login
\* that fails for a registered email with a wrong password both end Invalid
\* credentials, at every position of a sequence of attempts.
C11_NoEnumeration ==
  \A p \in Procs :
    (/\ pc[p] = "idle"
     /\ res[p] # "none"
     /\ arg[p].email \in Emails
     /\ arg[p].email \in Users => ~BcryptCompare(arg[p].password, StoredHash(arg[p].email)))
      => res[p] = "invalid"

----
\* Session lifetime classes

\* expiresAt minus creation time
Lifetime(row) == row.expiresAt - row.createdAt

\* every row has the lifetime of the login row of its chain
ChainLifetimes ==
  \A id \in DOMAIN refreshToken :
    Lifetime(refreshToken[id]) = issued[Root(id)].exp - issued[Root(id)].iat

\* C12: a login with rememberMe = true creates a row with a lifetime of 30 days
\* and a login with rememberMe = false one of 24 hours, and after every step
\* every row, whatever the number of rotations behind it, has the lifetime of
\* the login row of its chain.
C12_ClassKept ==
  [][/\ \A u \in LoginUsers, rm \in BOOLEAN :
          Login(u, rm) =>
            Lifetime(refreshToken'[NextId]) = (IF rm THEN 2592000 ELSE 86400)
     /\ ChainLifetimes']_vars

\* a 30-day login has been rotated twice after the clock moved, and the last
\* successor is a 30-day row
C12_Witness ==
  \E id \in DOMAIN refreshToken :
    /\ issued[id].parent # 0
    /\ issued[issued[id].parent].parent # 0
    /\ Lifetime(refreshToken[id]) = 2592000
    /\ refreshToken[id].createdAt > 0

----
\* Logout

RefreshTok(id) == [kind |-> "refresh", id |-> id]

AccessTok(id) == [kind |-> "access", id |-> id]

\* the step leaves every row in place
RowsStay == DOMAIN refreshToken' = DOMAIN refreshToken

\* C13: every logout request, whatever token it carries (none, no JWT, expired,
\* of a revoked or deleted row, an access token, a valid wrapper), with
\* allDevices true or false and with the store operation failing or not, is
\* answered with a success acknowledgment.
C13_LogoutSucceeds ==
  [][\A p \in EndpointProcs :
       \/ res'[p] \in {"Logout successful", "Successfully logged out",
                       "Successfully logged out from all devices"}
       \/ \A tok \in Presented, all \in BOOLEAN, f \in BOOLEAN :
            ~LogoutRequest(p, tok, all, f)]_vars

\* a single-session logout that revoked nothing (every row ever created is in
\* place, non-revoked, its wrapper unexpired) has been acknowledged
C13_Witness ==
  \E p \in Procs :
    /\ res[p] = "Successfully logged out"
    /\ now = 0
    /\ issued # <<>>
    /\ DOMAIN refreshToken = Ids
    /\ LiveRows = Ids

\* C14: a logout with allDevices = true and a valid refresh wrapper of account A,
\* whose store operation succeeds, leaves every row of A that was non-revoked
\* revoked now with reason logout_all_devices, and every other row (revoked rows
\* of A, rows of other accounts) as it was.
C14_LogoutAllDevices ==
  [][\A p \in EndpointProcs, id \in Ids :
       (JwtVerify(issued[id], now) /\ LogoutRequest(p, RefreshTok(id), TRUE, FALSE)) =>
         /\ RowsStay
         /\ \A i \in DOMAIN refreshToken :
              IF refreshToken[i].userId = issued[id].sub /\ ~refreshToken[i].isRevoked
                THEN refreshToken'[i] = [refreshToken[i] EXCEPT
                                           !.isRevoked = TRUE, !.revokedAt = now,
                                           !.revokedReason = "logout_all_devices"]
                ELSE refreshToken'[i] = refreshToken[i]]_vars

\* all devices of one account have been logged out while another account has a
\* live session
C14_Witness ==
  \E p \in Procs, i, j \in DOMAIN refreshToken :
    /\ res[p] = "Successfully logged out from all devices"
    /\ refreshToken[i].revokedReason = "logout_all_devices"
    /\ refreshToken[j].userId # refreshToken[i].userId
    /\ ~refreshToken[j].isRevoked

\* C15: a logout with allDevices = false changes no row but the one the presented
\* refresh wrapper names, and that row it either leaves or revokes with reason
\* logout.
C15_LogoutSingle ==
  [][\/ refreshToken' = refreshToken
     \/ \A p \in EndpointProcs, tok \in Presented, f \in BOOLEAN :
          LogoutRequest(p, tok, FALSE, f) =>
            /\ RowsStay
            /\ \A i \in DOMAIN refreshToken :
                 IF tok.kind = "refresh" /\ i = tok.id
                   THEN \/ refreshToken'[i] = refreshToken[i]
                        \/ refreshToken'[i] = [refreshToken[i] EXCEPT
                                                 !.isRevoked = TRUE, !.revokedAt = now,
                                                 !.revokedReason = "logout"]
                   ELSE refreshToken'[i] = refreshToken[i]]_vars

\* one session of an account has been logged out and another session of the
\* same account is live
C15_Witness ==
  \E p \in Procs, i, j \in DOMAIN refreshToken :
    /\ res[p] = "Successfully logged out"
    /\ refreshToken[i].revokedReason = "logout"
    /\ i # j
    /\ refreshToken[j].userId = refreshToken[i].userId
    /\ ~refreshToken[j].isRevoked

\* C18: a refresh or logout request (allDevices true or false) carrying a validly
\* signed access token issues no token pair and leaves every session row as it
\* was.
C18_AccessNotRefresh ==
  [][\A p \in Procs, id \in Ids :
       /\ \A all \in BOOLEAN, f \in BOOLEAN :
            LogoutRequest(p, AccessTok(id), all, f) =>
              (refreshToken' = refreshToken /\ issued' = issued)
       /\ RefreshWrongToken(p, AccessTok(id)) =>
            (refreshToken' = refreshToken /\ issued' = issued /\ res'[p] # "tokens")]_vars

----
\* Session management

\* the step leaves the rows of every account but u as they were
OthersUnchanged(u) ==
  \A i \in DOMAIN refreshToken :
    refreshToken[i].userId # u =>
      (i \in DOMAIN refreshToken' /\ refreshToken'[i] = refreshToken[i])

\* C16: a revokeSession request of an authenticated account for a session id
\* that names no row, or a row of another account, is answered with Session not
\* found and never with success.
C16_ForeignNotFound ==
  [][\A p \in Procs, tok \in Presented, id \in SessionIds, f \in BOOLEAN :
       (/\ RevokeSessionRequest(p, tok, id, f)
        /\ GuardAccepts(tok, now)
        /\ (id \notin DOMAIN refreshToken \/ refreshToken[id].userId # Payload(tok).sub))
         => res'[p] = "Session not found or already revoked"]_vars

\* C17: a revokeSession request of an account, and every step of the loop of its
\* revoke-all request, leaves the rows of every other account as they were; a
\* request the guard refuses leaves every row as it was.
C17_OwnRowsOnly ==
  [][\/ refreshToken' = refreshToken
     \/ \A p \in Procs :
          /\ \A tok \in Presented, id \in SessionIds, f \in BOOLEAN :
               RevokeSessionRequest(p, tok, id, f) =>
                 IF GuardAccepts(tok, now) THEN OthersUnchanged(Payload(tok).sub)
                 ELSE refreshToken' = refreshToken
          /\ pc[p] = "raLoop" => OthersUnchanged(arg[p].userId)]_vars

\* a session has been revoked on request while another account has a live session
C17_Witness ==
  \E p \in Procs, i, j \in DOMAIN refreshToken :
    /\ res[p] = "Session revoked successfully"
    /\ refreshToken[i].revokedReason = "manual_revocation"
    /\ refreshToken[j].userId # refreshToken[i].userId
    /\ ~refreshToken[j].isRevoked

----
\* The guard and the session list

\* C19: in every state, an access token issued to an account is accepted by the
\* guard exactly when it has not expired (30 minutes from its issue), whatever
\* has become of the session rows.
C19_AccessStateless ==
  \A id \in Ids :
    GuardAccepts(AccessTok(id), now) <=> now < issued[id].iat + 1800

\* a request with the access token of a revoked or deleted session has been served
C19_Witness ==
  \E p \in Procs, id \in Ids :
    /\ res[p] = "profile"
    /\ GuardAccepts(AccessTok(id), now)
    /\ \A i \in Ids : i \notin LiveRows

\* C20: the list getUserSessions returns for an account holds each row of that
\* account that is non-revoked and has expiresAt later than now exactly once,
\* holds no other row, and is ordered by lastUsedAt descending.
C20_SessionList ==
  [][\A p \in Procs, tok \in Presented :
       GetUserSessions(p, tok) =>
         LET s == todo'[p]
             n == Len(s)
         IN /\ {s[k] : k \in 1..n} =
                 {i \in DOMAIN refreshToken :
                    /\ refreshToken[i].userId = Payload(tok).sub
                    /\ refreshToken[i].isRevoked = FALSE
                    /\ refreshToken[i].expiresAt > now}
            /\ \A k, l \in 1..n : k # l => s[k] # s[l]
            /\ \A k, l \in 1..n :
                 k < l => refreshToken[s[k]].lastUsedAt >= refreshToken[s[l]].lastUsedAt]_vars

\* a list of two sessions used at different times has been returned
C20_Witness ==
  \E p \in Procs :
    /\ res[p] = "sessions"
    /\ Len(todo[p]) = 2
    /\ todo[p][1] \in DOMAIN refreshToken
    /\ todo[p][2] \in DOMAIN refreshToken
    /\ refreshToken[todo[p][1]].lastUsedAt > refreshToken[todo[p][2]].lastUsedAt

----
\* Cleanup

\* the step is a run of cleanupExpiredTokens whose deleteMany succeeded
CleanupRan ==
  \/ HandleCleanupExpiredTokens(FALSE)
  \/ HandleHourlyCleanup(FALSE)
  \/ Cleanup

\* C21 (as the claim states it): a cleanup run deletes every row whose expiresAt
\* is before now and every revoked row whose revokedAt is more than 7 days
\* before now, and leaves every row revoked less than 7 days ago in place.
C21_RecentRevokedKept ==
  [][CleanupRan =>
       \A i \in DOMAIN refreshToken :
         /\ refreshToken[i].expiresAt < now => i \notin DOMAIN refreshToken'
         /\ (refreshToken[i].isRevoked /\ now - refreshToken[i].revokedAt > 604800)
              => i \notin DOMAIN refreshToken'
         /\ (refreshToken[i].isRevoked /\ now - refreshToken[i].revokedAt < 604800)
              => (i \in DOMAIN refreshToken' /\ refreshToken'[i] = refreshToken[i])]_vars

\* C21 (amended): a cleanup run deletes exactly the rows whose expiresAt is before
\* now and the revoked rows whose revokedAt is more than 7 days before now;
\* every other row, among them every unexpired row revoked 7 days ago or less,
\* is left as it was.
C21_CleanupDeletes ==
  [][CleanupRan =>
       \A i \in DOMAIN refreshToken :
         IF \/ refreshToken[i].expiresAt < now
            \/ refreshToken[i].isRevoked /\ now - refreshToken[i].revokedAt > 604800
           THEN i \notin DOMAIN refreshToken'
           ELSE i \in DOMAIN refreshToken' /\ refreshToken'[i] = refreshToken[i]]_vars

\* after a daily run a row has been deleted and an unexpired row revoked exactly
\* 7 days ago is in place
C21_Witness ==
  /\ cleanupLog = "completed"
  /\ DOMAIN refreshToken # 1..Len(issued)
  /\ \E i \in DOMAIN refreshToken :
       /\ refreshToken[i].isRevoked
       /\ now - refreshToken[i].revokedAt = 604800
       /\ refreshToken[i].expiresAt > now

\* the rows the step removes from the store
Removed == DOMAIN refreshToken \ DOMAIN refreshToken'

\* C22 (as the claim states it): a session row is removed only by a cleanup run,
\* and only if it is expired or revoked for more than 7 days.
C22_OnlyCleanupDeletes ==
  [][\A i \in Removed : Cleanup /\ Stale(refreshToken[i], now)]_vars

\* C22 (amended): a session row is removed only by a cleanup run or by the
\* refresh call that was presented its wrapper and found it expired; a row removed
\* by cleanup is expired or revoked for more than 7 days, a row removed by a
\* refresh call is expired; login, logout and revokeSession remove no row.
C22_DeletedOnlyStale ==
  [][\A i \in Removed :
       \/ Cleanup /\ Stale(refreshToken[i], now)
       \/ \E p \in Procs :
            /\ RefreshDelete(p)
            /\ arg[p].tokenId = i
            /\ Removed = {i}
            /\ refreshToken[i].expiresAt < now]_vars

\* a refresh call has removed a row: the row is gone while another row that a
\* cleanup run at this time would have removed with it is in place
C22_Witness ==
  \E i \in 1..Len(issued), j \in DOMAIN refreshToken, p \in Procs :
    /\ i \notin DOMAIN refreshToken
    /\ Stale(refreshToken[j], now)
    /\ refreshToken[j].createdAt = issued[i].iat
    /\ res[p] = "unauthorized"

\* the refresh call of handler p returns a token pair if nothing else touches the
\* store before it ends and its create succeeds
StillPasses(p) ==
  \/ pc[p] = "rfFind" /\ FindOutcome(FindUnique(arg[p].tokenId), now) = "ok"
  \/ pc[p] \in {"rfTouch", "rfRevoke"} /\ arg[p].tokenId \in DOMAIN refreshToken
  \/ pc[p] = "rfCreate"

\* C23: a cleanup run leaves a store on which a second run at the same clock value
\* deletes nothing; it turns no refresh call in flight that would be refused into
\* one that returns a token pair; and a refresh call that reads a row that is
\* deleted, revoked or expired (whether or not a cleanup run came between its
\* verify and its read) goes no further towards a token pair.
C23_CleanupSafe ==
  [][/\ CleanupRan =>
          /\ Swept(now)' = refreshToken'
          /\ \A p \in Procs : StillPasses(p)' => StillPasses(p)
     /\ \A p \in Procs :
          (/\ RefreshFind(p)
           /\ \/ arg[p].tokenId \notin DOMAIN refreshToken
              \/ refreshToken[arg[p].tokenId].isRevoked
              \/ refreshToken[arg[p].tokenId].expiresAt < now)
            => pc'[p] \in {"idle", "rfDelete"}]_vars

\* a cleanup run has removed the row a refresh call had read in order, before the
\* call's write to it, and has left another row in place
C23_Witness ==
  \E p \in Procs :
    /\ pc[p] \in {"rfTouch", "rfRevoke"}
    /\ arg[p].tokenId \notin DOMAIN refreshToken
    /\ refreshToken # <<>>

\* C24: no cleanup run raises an error out of its handler; a run whose store
\* operation fails changes nothing but the log; and after a failed run a later
\* run succeeds and leaves no row that is then expired or revoked for more than
\* 7 days.
C24_FailedRunHarmless ==
  /\ [](cleanupLog # "uncaught")
  /\ [][(HandleCleanupExpiredTokens(TRUE) \/ HandleHourlyCleanup(TRUE)) =>
          /\ cleanupLog' = "failed"
          /\ UNCHANGED <<now, ticks, limit, tickLimit, isAdmin, user, usnap, compared, raced,
                         refreshToken, issued, pc, arg, snap, todo, res>>]_vars
  /\ (cleanupLog = "failed") ~>
       (/\ cleanupLog \in {"completed", "hourly"}
        /\ \A i \in DOMAIN refreshToken : ~Stale(refreshToken[i], now))

\* a run has failed while a row it should have removed is in the store
C24_Witness ==
  /\ cleanupLog = "failed"
  /\ \E i \in DOMAIN refreshToken : Stale(refreshToken[i], now)

----
\* Independence of accounts

\* what the store holds of account u, and what the checks of a request for u make
\* of it: the lock check, the session list, the rows a revocation matches, the
\* branch a refresh takes
ViewOf(u) ==
  [rows |-> [i \in {j \in DOMAIN refreshToken : refreshToken[j].userId = u} |-> refreshToken[i]],
   user |-> user[u],
   locked |-> IsLocked(user[u], now),
   sessions |-> ActiveSessions(u),
   matches |-> [id \in SessionIds |-> RevokeMatches(u, id)],
   found |-> [id \in {j \in 1..Len(issued) : issued[j].sub = u} |->
                FindOutcome(FindUnique(id), now)]]

\* C25: every store operation of a login, refresh, logout, revokeSession or
\* revoke-all request served for one account leaves the session rows, the
\* failed-attempt counter and the lockout expiry of every other account as they
\* were, and with them what the checks of that account's own requests find.
C25_AccountsIndependent ==
  [][\/ UNCHANGED <<refreshToken, user, issued, now>>
     \/ \A p \in Procs : \A u \in Users \ {AccountOf[p]} :
          ViewOf(u)' = ViewOf(u) \/ ~StepOf(p)]_vars

\* one account has logged out of all devices after a failed and a successful
\* login while the other has a failed login on its counter and a live session
C25_Witness ==
  \E i, j \in DOMAIN refreshToken :
    /\ refreshToken[i].userId = "u1"
    /\ refreshToken[i].revokedReason = "logout_all_devices"
    /\ refreshToken[j].userId = "u2"
    /\ ~refreshToken[j].isRevoked
    /\ user["u2"].failedLoginAttempts = 1
    /\ user["u1"].failedLoginAttempts = 0
    /\ arg["p1"].password = "right"

----
\* The administrative guard and the token types

\* C26: the lockout-status request returns lockout data only to the bearer of a
\* valid access token whose account has the administrative flag at that time; a
\* caller the guard does not authenticate is answered unauthorized, an
\* authenticated caller without the flag forbidden.
C26_AdminOnly ==
  [][\A p \in EndpointProcs, tok \in Presented, e \in Users :
       CheckLockoutStatus(p, tok, e) =>
         /\ res'[p] \in {"lockoutStatus", "unauthorized", "forbidden"}
         /\ res'[p] = "lockoutStatus" =>
              /\ tok.kind = "access"
              /\ now < issued[tok.id].iat + 1800
              /\ isAdmin[issued[tok.id].sub]
         /\ (tok.kind = "access" /\ now < issued[tok.id].iat + 1800
                /\ ~isAdmin[issued[tok.id].sub]) => res'[p] = "forbidden"
         /\ tok.kind \in {"none", "garbage"} => res'[p] = "unauthorized"]_vars

\* C29: a request to a guarded endpoint (profile, session list, session
\* revocation, lockout status) that presents a refresh wrapper as its bearer
\* token is rejected, whatever has become of the wrapper's row.
C29_RefreshNotAccess ==
  [][\A p \in EndpointProcs, id \in Ids :
       /\ GetProfile(p, RefreshTok(id)) => res'[p] = "unauthorized"
       /\ ~GetUserSessions(p, RefreshTok(id))
       /\ \A sid \in SessionIds :
            RevokeSessionRequest(p, RefreshTok(id), sid, FALSE) =>
              (res'[p] = "unauthorized" /\ refreshToken' = refreshToken)
       /\ \A e \in Users :
            CheckLockoutStatus(p, RefreshTok(id), e) => res'[p] = "unauthorized"]_vars

----
\* Refresh of an expired session

----
\* Refresh against revocation

\* C28: once a logout, a logout of all devices or a manual revocation of a row
\* has returned, no session is created that descends from that row (no refresh
\* call on it returns a token pair).
C28_NoDescentAfterRevocation ==
  [][\A i \in DOMAIN refreshToken :
       (/\ refreshToken[i].isRevoked
        /\ refreshToken[i].revokedReason \in {"logout", "logout_all_devices", "manual_revocation"})
         => \A k \in (1..Len(issued')) \ (1..Len(issued)) : issued'[k].parent # i]_vars

\* C30: once a row is revoked, no later step changes its revokedAt or its
\* revokedReason.
C30_RevocationWriteOnce ==
  [][\A i \in DOMAIN refreshToken \cap DOMAIN refreshToken' :
       refreshToken[i].isRevoked =>
         /\ refreshToken'[i].revokedAt = refreshToken[i].revokedAt
         /\ refreshToken'[i].revokedReason = refreshToken[i].revokedReason]_vars

====
